---- MODULE Spec2Model ----
(***************************************************************************)
(* Model of elasticlient::parseScrollResult                                *)
(* (include/elasticlient/scroll-parser.h).                                 *)
(*                                                                         *)
(* The function parses one page of a scroll response with rapidjson,      *)
(* walks a fixed chain of checks over the parsed tree and, when all of    *)
(* them pass, copies the root "_scroll_id" into the caller's scrollId and *)
(* returns true.  The caller's two output arguments (parsedResult,        *)
(* scrollId) are the state that survives from one call to the next.       *)
(*                                                                         *)
(* JSON values are records tagged by "type".  A std::string is a sequence *)
(* of character codes; the raw response is a sequence of segments, where  *)
(* a segment is either one run of NUL-free bytes (described by what those *)
(* bytes are as JSON) or a NUL byte.                                       *)
(***************************************************************************)
EXTENDS Integers, Sequences, FiniteSets, TLC

\* ------------------------------------------------------------------ bounds
\* Longest "_scroll_id" string (in characters) among the modelled responses.
MaxLen == 2

\* ------------------------------------------------------- program constants
\* The C string terminator: const char* data ends at the first NUL.
NUL == 0
\* The C++ int is 32 bits wide.  An integer literal of the JSON text is kept
\* as two halves, value = hi * Half + lo with 0 <= lo < Half, so that
\* literals outside the range of int can be written down.
Half == 65536
\* int covers hi in IntMinHi .. IntMaxHi, that is -2^31 .. 2^31 - 1.
IntMaxHi == 32767
IntMinHi == -32768

\* Character codes used in string values: 'a' and an embedded NUL.
Chars == {97, NUL}

\* ------------------------------------------------------------- JSON values
Absent == [type |-> "absent"]
JNull == [type |-> "null"]
JBool(b) == [type |-> "bool", b |-> b]
\* An integer literal of the JSON text, of value hi * Half + lo.
JInt(hi, lo) == [type |-> "number", integral |-> TRUE, hi |-> hi, lo |-> lo]
\* The non-integer literal 1.5.
JDouble == [type |-> "number", integral |-> FALSE]
JString(s) == [type |-> "string", s |-> s]
JArray(e) == [type |-> "array", elems |-> e]
JObject(m) == [type |-> "object", members |-> m]

RECURSIVE StringsUpTo(_)
StringsUpTo(n) ==
    IF n = 0 THEN {<<>>}
    ELSE LET shorter == StringsUpTo(n - 1)
         IN  shorter \cup {Append(s, c) : s \in {t \in shorter : Len(t) = n - 1}, c \in Chars}

Strings == StringsUpTo(MaxLen)

\* rapidjson type predicates and accessors used by the function.
IsObject(v) == v.type = "object"
IsArray(v) == v.type = "array"
IsString(v) == v.type = "string"
IsBool(v) == v.type = "bool"
GetBool(v) == v.b
\* IsInt(): the number is an integer literal that fits a signed 32-bit int.
IsInt(v) == v.type = "number" /\ v.integral /\ v.hi >= IntMinHi /\ v.hi <= IntMaxHi
GetInt(v) == v.hi * Half + v.lo
\* HasMember / operator[] on a value that is an object.
HasMember(v, name) == name \in DOMAIN v.members /\ v.members[name] # Absent
Member(v, name) == v.members[name]

\* ------------------------------------------------------------------ inputs
\* Values tried for the root "error" and "timed_out" members.
FlagValues == {Absent, JBool(FALSE), JBool(TRUE), JString(<<97>>)}

\* Values tried for "_shards"."failed": absent, a string, 1.5, and integer
\* literals -1, 0, 1 and 2147483648 (the first one past the range of int).
FailedValues ==
    {Absent, JString(<<97>>), JDouble,
     JInt(-1, Half - 1), JInt(0, 0), JInt(0, 1), JInt(IntMaxHi + 1, 0)}

ShardsValues ==
    {Absent, JNull} \cup {JObject([failed |-> f]) : f \in FailedValues}

\* The string "hits" as character codes.
HitsName == <<104, 105, 116, 115>>

\* Values tried for the root "hits": absent, four non-objects (the array is
\* ["hits", []]) and objects whose own "hits" is absent, an array or null.
NonObjectHits ==
    {JNull, JInt(0, 1), JString(<<97>>), JArray(<<JString(HitsName), JArray(<<>>)>>)}

HitsValues ==
    {Absent} \cup NonObjectHits
             \cup {JObject([hits |-> h]) : h \in {Absent, JArray(<<>>), JNull}}

ScrollIdValues == {Absent, JInt(0, 1)} \cup {JString(s) : s \in Strings}

RootKeys == {"error", "timed_out", "_shards", "hits", "_scroll_id"}

Root(e, t, sh, h, id) ==
    JObject([k \in RootKeys |->
        CASE k = "error" -> e
          [] k = "timed_out" -> t
          [] k = "_shards" -> sh
          [] k = "hits" -> h
          [] k = "_scroll_id" -> id])

RootObjects ==
    {Root(e, t, sh, h, id) : e \in FlagValues, t \in FlagValues, sh \in ShardsValues,
                              h \in HitsValues, id \in ScrollIdValues}

\* What one NUL-free run of bytes is when read as JSON text: not JSON at all,
\* or one JSON value (an object, or the array []).
Malformed == [syntax |-> "malformed"]
\* A NUL byte inside the std::string.
NulByte == [syntax |-> "NUL"]
Json(v) == [syntax |-> "json", root |-> v]
Bodies == {Malformed, Json(JArray(<<>>))} \cup {Json(o) : o \in RootObjects}

\* A raw response (std::string): one run of bytes, optionally followed by an
\* embedded NUL byte and more bytes.
RawResponses == {<<b>> : b \in Bodies} \cup {<<b, NulByte, Malformed>> : b \in Bodies}

\* The pages a scroll delivers after the first one: the sample responses
\*   {"hits":{"hits":[]},"_shards":{"failed":0},"_scroll_id":"a"}
\*   {"error":true}     {"_shards":{"failed":1}}     not json at all
\*   {"_shards":{"failed":0},"hits":{"hits":[]}}
\*   {"timed_out":true,"_shards":{"failed":0},"hits":{"hits":[]},"_scroll_id":"a"}
\*   {"_shards":{"failed":0},"_scroll_id":"a"}
GoodShards == JObject([failed |-> JInt(0, 0)])
GoodHits == JObject([hits |-> JArray(<<>>)])
Pages ==
    { <<Json(Root(Absent, Absent, GoodShards, GoodHits, JString(<<97>>)))>>,
      <<Json(Root(JBool(TRUE), Absent, Absent, Absent, Absent))>>,
      <<Json(Root(Absent, Absent, JObject([failed |-> JInt(0, 1)]), Absent, Absent))>>,
      <<Malformed>>,
      <<Json(Root(Absent, Absent, GoodShards, GoodHits, Absent))>>,
      <<Json(Root(Absent, JBool(TRUE), GoodShards, GoodHits, JString(<<97>>)))>>,
      <<Json(Root(Absent, Absent, GoodShards, Absent, JString(<<97>>)))>> }

\* -------------------------------------------------------------- the state
VARIABLES
    result,        \* the raw response passed to the last call (or pending)
    parsedResult,  \* the caller's std::unique_ptr<JsonResult>
    scrollId,      \* the caller's std::string scrollId
    ret,           \* the value returned by the last call
    exit,          \* the return statement the last call left through
    pc,            \* "ready", "returned", or "aborted" (the process stopped)
    ndebug         \* the build compiles assertions out (NDEBUG)

vars == <<result, parsedResult, scrollId, ret, exit, pc, ndebug>>

\* ------------------------------------------------------------ the function
\* What a const char* designates: everything before the first terminator.
RECURSIVE UpTo(_, _)
UpTo(s, stop) ==
    IF s = <<>> \/ Head(s) = stop THEN <<>> ELSE <<Head(s)>> \o UpTo(Tail(s), stop)

\* result.c_str() as read by Parse(const char*).
c_str(text) == UpTo(text, NulByte)

\* std::string::operator=(const char*) applied to GetString().
CStr(s) == UpTo(s, NUL)

\* document.Parse(text): the text is one JSON value, or a parse error that
\* leaves the document null.
Parse(text) ==
    IF Len(text) = 1 /\ text[1].syntax = "json"
    THEN [ok |-> TRUE, document |-> text[1].root]
    ELSE [ok |-> FALSE, document |-> JNull]

\* if (!ok || !document.IsObject()) return false;
ParseCheck(p) ==
    IF ~p.ok \/ ~IsObject(p.document) THEN "ParseError" ELSE "pass"

\* if (document.HasMember("error")) { if (!err.IsBool() || err.GetBool()) return false; }
ErrorCheck(document) ==
    IF HasMember(document, "error")
    THEN LET err == Member(document, "error")
         IN  IF ~IsBool(err) \/ GetBool(err) THEN "ErrorFlagSet" ELSE "pass"
    ELSE "pass"

\* if (document.HasMember("timed_out")) { if (!doc.IsBool() || doc.GetBool()) return false; }
TimedOutCheck(document) ==
    IF HasMember(document, "timed_out")
    THEN LET doc == Member(document, "timed_out")
         IN  IF ~IsBool(doc) \/ GetBool(doc) THEN "TimedOut" ELSE "pass"
    ELSE "pass"

\* The "_shards" block with the comparison written  failed > 1.
ShardsCheckOffByOne(document) ==
    IF HasMember(document, "_shards") /\ IsObject(Member(document, "_shards"))
    THEN LET shards == Member(document, "_shards")
         IN  IF HasMember(shards, "failed") /\ IsInt(Member(shards, "failed"))
             THEN LET failed == GetInt(Member(shards, "failed"))
                  IN  IF failed > 1 THEN "ShardFailures" ELSE "pass"
             ELSE "MissingShardInfo"
    ELSE "MissingShardInfo"

\* The "_shards" block taking a missing "failed" for zero failed shards.
ShardsCheckLenient(document) ==
    IF HasMember(document, "_shards") /\ IsObject(Member(document, "_shards"))
    THEN LET shards == Member(document, "_shards")
         IN  IF HasMember(shards, "failed")
             THEN IF IsInt(Member(shards, "failed"))
                  THEN IF GetInt(Member(shards, "failed")) > 0 THEN "ShardFailures" ELSE "pass"
                  ELSE "MissingShardInfo"
             ELSE "pass"
    ELSE "MissingShardInfo"

\* The "_shards" block: object, with an IsInt() "failed" that is not > 0.
ShardsCheck(document) ==
    IF HasMember(document, "_shards") /\ IsObject(Member(document, "_shards"))
    THEN LET shards == Member(document, "_shards")
         IN  IF HasMember(shards, "failed") /\ IsInt(Member(shards, "failed"))
             THEN LET failed == GetInt(Member(shards, "failed"))
                  IN  IF failed > 0 THEN "ShardFailures" ELSE "pass"
             ELSE "MissingShardInfo"
    ELSE "MissingShardInfo"

\* What  hits.HasMember("hits") && hits["hits"].IsArray()  can do.  On an
\* object it is the lookup.  On any other value the member lookup is outside
\* rapidjson's contract.  In a build with assertions,
\* RAPIDJSON_ASSERT(IsObject()) stops the process.  In a build without them
\* (NDEBUG) the value's storage is read as if it were a member list: null
\* has none; an array's elements are taken pairwise as name and value; the
\* bytes of a number or a string are taken for a count and a pointer, and
\* what is found behind them (a crash included) differs from run to run.
LookupOutcomes == {"stop", "nomatch", "match"}

ReadAsMembers(hits, wild) ==
    CASE hits = JNull -> "nomatch"
      [] IsArray(hits) /\ Len(hits.elems) >= 2 /\ hits.elems[1] = JString(HitsName) ->
            IF IsArray(hits.elems[2]) THEN "match" ELSE "nomatch"
      [] OTHER -> wild

HitsArrayLookup(hits, nd, wild) ==
    IF IsObject(hits)
    THEN IF HasMember(hits, "hits") /\ IsArray(Member(hits, "hits")) THEN "match" ELSE "nomatch"
    ELSE IF ~nd THEN "stop" ELSE ReadAsMembers(hits, wild)

\* The "hits" block with the nested "_scroll_id" check.
HitsCheck(document, nd, wild) ==
    IF HasMember(document, "hits")
    THEN LET found == HitsArrayLookup(Member(document, "hits"), nd, wild)
         IN  CASE found = "stop" -> "Abort"
               [] found = "match" ->
                    IF HasMember(document, "_scroll_id")
                          /\ IsString(Member(document, "_scroll_id"))
                    THEN "Success"
                    ELSE "MissingScrollId"
               [] OTHER -> "MissingHits"
    ELSE "MissingHits"

\* The chain of checks in program order; the first one that does not pass
\* decides the return statement.
Checks(p, nd, wild) ==
    IF ParseCheck(p) # "pass" THEN ParseCheck(p)
    ELSE IF ErrorCheck(p.document) # "pass" THEN ErrorCheck(p.document)
    ELSE IF TimedOutCheck(p.document) # "pass" THEN TimedOutCheck(p.document)
    ELSE IF ShardsCheck(p.document) # "pass" THEN ShardsCheck(p.document)
    ELSE HitsCheck(p.document, nd, wild)

\* The assignment hoisted out of the "hits" test: scrollId is written as
\* soon as the shard block has passed and "_scroll_id" is a string.
AssignScrollIdEarly(document, how, old) ==
    IF how \in {"Success", "MissingHits"}
          /\ HasMember(document, "_scroll_id") /\ IsString(Member(document, "_scroll_id"))
    THEN CStr(Member(document, "_scroll_id").s)
    ELSE old

\* scrollId = document["_scroll_id"].GetString();  only before  return true.
AssignScrollId(document, how, old) ==
    IF how = "Success" THEN CStr(Member(document, "_scroll_id").s) ELSE old

\* parsedResult.reset(new JsonResult{}) followed by Parse into it; nothing
\* afterwards touches the handle.
ResetAndParse(text) == [owns |-> TRUE, document |-> Parse(text).document]

\* One call  parseScrollResult(r, parsedResult, scrollId).
parseScrollResult(r, wild) ==
    /\ pc # "aborted"
    /\ LET p == Parse(c_str(r))
           how == Checks(p, ndebug, wild)
       IN  /\ result' = r
           /\ parsedResult' = ResetAndParse(c_str(r))
           /\ exit' = how
           /\ ndebug' = ndebug
           /\ scrollId' = AssignScrollId(p.document, how, scrollId)
           /\ IF how = "Abort"
              THEN pc' = "aborted" /\ ret' = ret
              ELSE pc' = "returned" /\ ret' = (how = "Success")

\* ---------------------------------------------------------- specification
Init ==
    /\ result \in RawResponses
    /\ parsedResult = [owns |-> FALSE, document |-> JNull]
    /\ scrollId = <<>>
    /\ ret = FALSE
    /\ exit = "none"
    /\ pc = "ready"
    /\ ndebug \in BOOLEAN

\* The caller validates the response it holds (again, if it already did).
Validate == \E wild \in LookupOutcomes : parseScrollResult(result, wild)

\* The caller validates the next page, reusing both output arguments.
NextPage ==
    /\ pc = "returned"
    /\ \E r \in Pages, wild \in LookupOutcomes : parseScrollResult(r, wild)

Next == Validate \/ NextPage

Spec == Init /\ [][Next]_vars

TypeOK ==
    /\ parsedResult.owns \in BOOLEAN
    /\ scrollId \in Strings
    /\ ret \in BOOLEAN
    /\ pc \in {"ready", "returned", "aborted"}
    /\ exit \in {"none", "Success", "Abort", "ParseError", "ErrorFlagSet", "TimedOut",
                 "MissingShardInfo", "ShardFailures", "MissingHits", "MissingScrollId"}

\* ------------------------------------------------- the documented gates
\* The six validation gates as the design document words them, stated over
\* the raw response that was passed to the call.
Called == pc # "ready"
Returned == pc = "returned"

\* The whole text is one JSON value.
TextIsJson == Len(result) = 1 /\ result[1].syntax = "json"
InField(name) == result[1].root.members[name]
\* An integer literal greater than zero / any number greater than zero.
Positive(n) == n.hi > 0 \/ (n.hi = 0 /\ n.lo > 0)
PositiveNumber(v) == v.type = "number" /\ (v.integral => Positive(v))
FitsInt(n) == n.hi >= IntMinHi /\ n.hi <= IntMaxHi

GateParse == TextIsJson /\ result[1].root.type = "object"
GateError == InField("error") \in {Absent, JBool(FALSE)}
GateTimedOut == InField("timed_out") \in {Absent, JBool(FALSE)}
ShardsIsObject == InField("_shards").type = "object"
InFailed == InField("_shards").members["failed"]
FailedIsInteger == ShardsIsObject /\ InFailed.type = "number" /\ InFailed.integral
GateShards == FailedIsInteger /\ ~Positive(InFailed)
GateHits ==
    /\ InField("hits").type = "object"
    /\ InField("hits").members["hits"].type = "array"
GateScrollId == InField("_scroll_id").type = "string"

AllGates ==
    GateParse /\ GateError /\ GateTimedOut /\ GateShards /\ GateHits /\ GateScrollId

\* The earliest gate the input violates (7 when it violates none), and the
\* gate a return statement belongs to.
FirstViolated ==
    IF ~GateParse THEN 1
    ELSE IF ~GateError THEN 2
    ELSE IF ~GateTimedOut THEN 3
    ELSE IF ~GateShards THEN 4
    ELSE IF ~GateHits THEN 5
    ELSE IF ~GateScrollId THEN 6
    ELSE 7

GateOf(e) ==
    CASE e = "ParseError" -> 1
      [] e = "ErrorFlagSet" -> 2
      [] e = "TimedOut" -> 3
      [] e \in {"MissingShardInfo", "ShardFailures"} -> 4
      [] e = "MissingHits" -> 5
      [] e = "MissingScrollId" -> 6
      [] e = "Success" -> 7
      [] OTHER -> 0

\* --------------------------------------------------------------- claims

\* C1: whenever the call returns true, all six gates hold for the input:
\* the text parses to an object, "error" and "timed_out" are absent or
\* false, "_shards"."failed" is an integer not > 0, "hits"."hits" is an
\* array, and "_scroll_id" is a string.
C1_SuccessImpliesAllGates == (Returned /\ ret) => AllGates

\* C2: after a call that returned false, the caller's parsedResult handle
\* does not own a document.
C2_FailureLeavesNoDocument == (Returned /\ ~ret) => ~parsedResult.owns

\* C3: for every input that violates some gate, the call returns through
\* the failure of the earliest violated gate in the order Parse, Error,
\* Timeout, Shards, Hits, Scroll id.
C3_EarliestGateDecides ==
    (Called /\ ~AllGates) => (Returned /\ ~ret /\ GateOf(exit) = FirstViolated)

\* C4 (as stated): every input whose "_shards"."failed" is > 0 is rejected
\* with ShardFailures, whatever its other fields are.
FailedPositive == GateParse /\ ShardsIsObject /\ PositiveNumber(InFailed)
ShardInfoMissing == GateParse /\ (~ShardsIsObject \/ InFailed = Absent)
C5_Original == (Called /\ ShardInfoMissing) => (Returned /\ exit = "MissingShardInfo")

\* C5 (amended): every input that passes the Parse, Error and Timeout gates
\* and has no "_shards", or no "_shards"."failed", is rejected with
\* MissingShardInfo, even when "hits" and "_scroll_id" are well-formed.
C5_MissingShardInfoRejected ==
    (Called /\ ShardInfoMissing /\ GateError /\ GateTimedOut) =>
        (Returned /\ ~ret /\ exit = "MissingShardInfo")

\* C5 witness: a response without shard information but with well-formed
\* "hits" and "_scroll_id" was rejected with MissingShardInfo.
C5_Witness ==
    /\ Returned /\ ShardInfoMissing /\ GateError /\ GateTimedOut
    /\ GateHits /\ GateScrollId
    /\ exit = "MissingShardInfo" /\ ~ret

\* C6: after a call that returned true, scrollId equals the root
\* "_scroll_id" string of the parsed document, character for character.
C6_TokenVerbatim ==
    (Returned /\ ret) =>
        /\ Member(parsedResult.document, "_scroll_id").type = "string"
        /\ scrollId = Member(parsedResult.document, "_scroll_id").s

\* C7: a call on the same text as the previous call ends the same way: the
\* same return value through the same return statement, and on success the
\* same token.
C7_SameInputSameOutcome ==
    [][(Returned /\ result' = result) =>
          (Returned' /\ ret' = ret /\ exit' = exit /\ (ret => scrollId' = scrollId))]_vars

\* C8: every input that passes the first four gates and whose "hits" is
\* missing, not an object, or lacks an array "hits", makes the call return
\* false through MissingHits.
C8_MalformedHitsRejected ==
    (Called /\ GateParse /\ GateError /\ GateTimedOut /\ GateShards /\ ~GateHits) =>
        (Returned /\ ~ret /\ exit = "MissingHits")

\* C9: for an input that passes the first three gates and whose
\* "_shards"."failed" is an integer, the shard gate reports ShardFailures
\* exactly when the value is > 0, and never MissingShardInfo.
C9_ShardGateBySign ==
    (Called /\ GateParse /\ GateError /\ GateTimedOut /\ FailedIsInteger) =>
        /\ Positive(InFailed) => (Returned /\ exit = "ShardFailures")
        /\ exit # "MissingShardInfo"

\* C10: a call that returns false leaves scrollId exactly as it was.
C10_FailureKeepsScrollId ==
    [][(Returned' /\ ~ret') => scrollId' = scrollId]_vars

\* C10 witness: a call returned false while scrollId held the token written
\* by an earlier, successful call.
C10_Witness == Returned /\ ~ret /\ scrollId # <<>>

====
